---- MODULE Spec2Model ----
(***************************************************************************)
(* A model of the modelhub scripts azureFoundry.py and vertex.py: the      *)
(* request builders (send_text_message, send_image_message,                *)
(* send_multimodal_message), the provider calls (call_azure_openai_gpt4,   *)
(* call_vertex_ai) and the extraction of the answer from the response.     *)
(*                                                                         *)
(* Text is a sequence of symbols (one-character strings, and the literal   *)
(* pieces of an f-string as one symbol each).  Each script is a program of *)
(* its own: `module` says which one runs.  An operation runs in steps that *)
(* end at its calls to the outside (requests.post, vertexai.init,          *)
(* generate_content), whose outcome the environment chooses.               *)
(***************************************************************************)
EXTENDS Integers, Sequences, FiniteSets, TLC

VARIABLES
    module,                          \* the script that runs
    AZURE_OPENAI_ENDPOINT,           \* azureFoundry.py:20
    AZURE_OPENAI_API_KEY,            \* azureFoundry.py:21
    GOOGLE_CLOUD_PROJECT,            \* vertex.py:42
    GOOGLE_APPLICATION_CREDENTIALS,  \* vertex.py:43
    VERTEX_AI_LOCATION,              \* eu-residency-validation.py:17, 133
    pc,                              \* the running operation's position
    op,                              \* the operation called and its arguments
    messages,                        \* azureFoundry: the messages handed to the call
    content_parts,                   \* vertex: the content parts handed to the call
    response,                        \* the response received from the provider
    result,                          \* what the operation gave its caller
    calls,                           \* the calls made to the outside, in order
    raised,                          \* the exceptions raised, in order
    output,                          \* eu-residency-validation: the lines printed
    report                           \* generate_compliance_report's local variables

vars == <<module, AZURE_OPENAI_ENDPOINT, AZURE_OPENAI_API_KEY, GOOGLE_CLOUD_PROJECT,
          GOOGLE_APPLICATION_CREDENTIALS, VERTEX_AI_LOCATION, pc, op, messages,
          content_parts, response, result, calls, raised, output, report>>

(***************************************************************************)
(* Bounds of the model.                                                    *)
(***************************************************************************)
MaxLen == 3
MaxChoices == 2
MaxImages == 2
MaxCandidates == 2
MaxResources == 2

(***************************************************************************)
(* Text.                                                                   *)
(***************************************************************************)
SP == " "
NL == "\n"
Whitespace == {SP, NL, "\t"}
Alphabet == {SP, "a"}

SeqsUpTo(S, n) == UNION {[1..k -> S] : k \in 0..n}

\* the texts a response may carry: all short ones over the alphabet, and some
\* with the other kinds of whitespace
Texts ==
    SeqsUpTo(Alphabet, MaxLen)
    \cup {<<NL, "a", "\t">>, <<"\t", NL>>, <<"a", NL, "a">>}

\* str.lstrip(): the text without its leading whitespace
RECURSIVE LStrip(_)
LStrip(s) ==
    IF s # <<>> /\ Head(s) \in Whitespace THEN LStrip(Tail(s)) ELSE s

\* str.rstrip(): the text without its trailing whitespace
RECURSIVE RStrip(_)
RStrip(s) ==
    IF s # <<>> /\ s[Len(s)] \in Whitespace
    THEN RStrip(SubSeq(s, 1, Len(s) - 1))
    ELSE s

\* a faulty variant of Strip: only the leading whitespace is removed
StripLeadingOnly(s) == LStrip(s)

\* str.strip()
Strip(s) == RStrip(LStrip(s))

\* a faulty variant of Lower: the text is left as it is written
LowerNothing(s) == s

\* str.lower() on the symbols a path or a destination is written in
LowerChar(c) ==
    CASE c = "J" -> "j" [] c = "P" -> "p" [] c = "G" -> "g" [] c = "E" -> "e"
      [] c = "N" -> "n" [] c = "I" -> "i" [] c = "F" -> "f" [] c = "W" -> "w"
      [] c = "B" -> "b" [] c = "M" -> "m" [] c = "A" -> "a" [] c = "U" -> "u"
      [] OTHER -> c

Lower(s) == [i \in 1..Len(s) |-> LowerChar(s[i])]

\* the absent value of os.getenv
Unset == "<None>"

\* Python's `not v` for an environment value
Falsy(v) == v = Unset \/ v = ""

(***************************************************************************)
(* The file system the scripts read: which paths exist, and their bytes.   *)
(***************************************************************************)
P_png == <<"a", ".", "p", "n", "g">>
P_JPG == <<"b", ".", "J", "P", "G">>
P_gone == <<"m", ".", "g", "i", "f">>

Paths == {P_png, P_JPG, P_gone}

\* Path(p).exists()
Exists(p) == p \in {P_png, P_JPG}

\* open(p, "rb").read()
ReadBytes(p) == IF p = P_png THEN <<137, 80, 78, 71>> ELSE <<255, 216>>

\* Path(GOOGLE_APPLICATION_CREDENTIALS).exists()
CredentialsFileExists(p) == p = "key.json"

RECURSIVE LastIndexOf(_, _)
LastIndexOf(s, c) ==
    IF s = <<>> THEN 0
    ELSE IF s[Len(s)] = c THEN Len(s)
    ELSE LastIndexOf(SubSeq(s, 1, Len(s) - 1), c)

\* PurePath.name: the final component of the path
PathName(p) == SubSeq(p, LastIndexOf(p, "/") + 1, Len(p))

\* PurePath.suffix: the final component's last dot and what follows it, unless
\* the dot is the first or the last symbol of the component
PathSuffix(p) ==
    LET name == PathName(p)
        i == LastIndexOf(name, ".")
    IN IF 1 < i /\ i < Len(name) THEN SubSeq(name, i, Len(name)) ELSE <<>>

\* mime_type_map.get(file_ext, 'image/jpeg') of azureFoundry.send_image_message
azure_mime_type(file_ext) ==
    CASE file_ext = <<".", "j", "p", "g">> -> "image/jpeg"
      [] file_ext = <<".", "j", "p", "e", "g">> -> "image/jpeg"
      [] file_ext = <<".", "p", "n", "g">> -> "image/png"
      [] file_ext = <<".", "g", "i", "f">> -> "image/gif"
      [] file_ext = <<".", "w", "e", "b", "p">> -> "image/webp"
      [] OTHER -> "image/jpeg"

\* mime_type_map.get(file_ext, 'image/jpeg') of vertex.encode_image_for_vertex
vertex_mime_type(file_ext) ==
    CASE file_ext = <<".", "j", "p", "g">> -> "image/jpeg"
      [] file_ext = <<".", "j", "p", "e", "g">> -> "image/jpeg"
      [] file_ext = <<".", "p", "n", "g">> -> "image/png"
      [] file_ext = <<".", "g", "i", "f">> -> "image/gif"
      [] file_ext = <<".", "w", "e", "b", "p">> -> "image/webp"
      [] OTHER -> "image/jpeg"

\* base64.b64encode: three bytes to four six-bit digits, 64 standing for '='
RECURSIVE b64encode(_)
b64encode(b) ==
    IF Len(b) = 0 THEN <<>>
    ELSE IF Len(b) = 1
    THEN <<b[1] \div 4, (b[1] % 4) * 16, 64, 64>>
    ELSE IF Len(b) = 2
    THEN <<b[1] \div 4, (b[1] % 4) * 16 + (b[2] \div 16), (b[2] % 16) * 4, 64>>
    ELSE <<b[1] \div 4, (b[1] % 4) * 16 + (b[2] \div 16),
           (b[2] % 16) * 4 + (b[3] \div 64), b[3] % 64>>
         \o b64encode(SubSeq(b, 4, Len(b)))

\* azureFoundry.encode_image
encode_image(image_path) == b64encode(ReadBytes(image_path))

(***************************************************************************)
(* Exceptions and results.                                                 *)
(***************************************************************************)
NoDetail == [k |-> "none"]

Exc(type, msg, detail) == [type |-> type, msg |-> msg, detail |-> detail]

NoResult == [kind |-> "none"]
Return(v) == [kind |-> "return", value |-> v]
Raise(e) == [kind |-> "raise", exc |-> e]

\* the arguments a caller may leave out
Omitted == <<"<omitted>">>
Default(arg, dflt) == IF arg = Omitted THEN dflt ELSE arg

UserTexts == {<<>>, <<"a">>}
SystemArgs == {Omitted, <<"s">>}
PromptArgs == {Omitted, <<"a">>}

NoOp == [name |-> "none"]

NoReport == [section |-> 0]

(***************************************************************************)
(* azureFoundry.py: the messages.                                          *)
(***************************************************************************)
DataUrl(mime_type, base64_image) ==
    [scheme |-> "data:", mime |-> mime_type, sep |-> ";base64,", data |-> base64_image]

StrContent(text) == [kind |-> "str", str |-> text]
PartsContent(parts) == [kind |-> "parts", parts |-> parts]

\* send_text_message: the messages list
azure_text_messages(text_content, system_prompt) ==
    <<[role |-> "system", content |-> StrContent(system_prompt)],
      [role |-> "user", content |-> StrContent(text_content)]>>

\* send_image_message: the messages list
azure_image_messages(image_path, text_prompt, system_prompt) ==
    LET file_ext == Lower(PathSuffix(image_path))
        mime_type == azure_mime_type(file_ext)
        base64_image == encode_image(image_path)
    IN <<[role |-> "system", content |-> StrContent(system_prompt)],
         [role |-> "user",
          content |-> PartsContent(
              <<[type |-> "text", text |-> text_prompt],
                [type |-> "image_url",
                 image_url |-> [url |-> DataUrl(mime_type, base64_image)]]>>)]>>

(***************************************************************************)
(* azureFoundry.py: call_azure_openai_gpt4.                                *)
(***************************************************************************)
\* the configuration checks: the exception raised, if any
azure_config_error ==
    IF Falsy(AZURE_OPENAI_ENDPOINT)
    THEN <<Exc("ValueError",
               <<"AZURE_OPENAI_ENDPOINT", " environment variable not set.">>, NoDetail)>>
    ELSE IF Falsy(AZURE_OPENAI_API_KEY)
    THEN <<Exc("ValueError",
               <<"AZURE_OPENAI_API_KEY", " environment variable not set.">>, NoDetail)>>
    ELSE <<>>

\* JSON values: an object is a record of its keys, a list a sequence
JObj(o) == [isList |-> FALSE, v |-> o]
JList(l) == [isList |-> TRUE, items |-> l]

\* Python's `key in response_json`: a key of a dict; an element of a list, and
\* the lists here hold objects, never the key itself
InJson(key, j) == IF j.isList THEN FALSE ELSE key \in DOMAIN j.v

ResponseDetail(response_json) == [k |-> "response", response |-> response_json]

\* a faulty variant of azure_extract: the legacy 'text' field of the first choice is
\* used when the choice has no message.content
azure_extract_text_fallback(response_json) ==
    IF InJson("choices", response_json) /\ Len(response_json.v.choices) > 0
    THEN LET first_choice == response_json.v.choices[1]
         IN IF "message" \in DOMAIN first_choice
               /\ "content" \in DOMAIN first_choice.message
            THEN Return(Strip(first_choice.message.content))
            ELSE IF "text" \in DOMAIN first_choice
            THEN Return(Strip(first_choice.text))
            ELSE Raise(Exc("ValueError",
                     <<"Unexpected response format: 'message.content' not found in choices. Full response: ">>,
                     ResponseDetail(response_json)))
    ELSE Raise(Exc("ValueError",
             <<"Unexpected response format: 'choices' array not found or empty. Full response: ">>,
             ResponseDetail(response_json)))

\* a faulty variant of azure_extract: the error does not carry the response
azure_extract_bare_error(response_json) ==
    IF InJson("choices", response_json) /\ Len(response_json.v.choices) > 0
    THEN LET first_choice == response_json.v.choices[1]
         IN IF "message" \in DOMAIN first_choice
               /\ "content" \in DOMAIN first_choice.message
            THEN Return(Strip(first_choice.message.content))
            ELSE Raise(Exc("ValueError", <<"Unexpected response format">>, NoDetail))
    ELSE Raise(Exc("ValueError", <<"Unexpected response format">>, NoDetail))

\* the extraction of the answer from the parsed response
azure_extract(response_json) ==
    IF InJson("choices", response_json) /\ Len(response_json.v.choices) > 0
    THEN LET first_choice == response_json.v.choices[1]
         IN IF "message" \in DOMAIN first_choice
               /\ "content" \in DOMAIN first_choice.message
            THEN Return(Strip(first_choice.message.content))
            ELSE Raise(Exc("ValueError",
                     <<"Unexpected response format: 'message.content' not found in choices. Full response: ">>,
                     ResponseDetail(response_json)))
    ELSE Raise(Exc("ValueError",
             <<"Unexpected response format: 'choices' array not found or empty. Full response: ">>,
             ResponseDetail(response_json)))

\* a faulty variant of azure_except: the request is sent again after a failure
azure_except_retry(e) == [pc |-> "az_post", result |-> NoResult]

\* the except clauses: each prints and raises the exception again
azure_except(e) == [pc |-> "done", result |-> Raise(e)]

\* response.raise_for_status(): an HTTPError for a 4xx or 5xx status
HTTPError(reply) ==
    Exc("requests.exceptions.HTTPError", <<"Error for url">>,
        [k |-> "http", status_code |-> reply.status_code, body |-> reply.body])

JSONDecodeError(reply) ==
    Exc("requests.exceptions.JSONDecodeError", <<"Expecting value">>, NoDetail)

\* a faulty variant of azure_receive: raise_for_status is left out, so the body
\* of an error response is parsed like any other
azure_receive_no_status_check(reply) ==
    IF reply.kind = "exception"
    THEN azure_except(reply.exc) @@ [raised |-> <<reply.exc>>]
    ELSE IF ~reply.body.valid
    THEN azure_except(JSONDecodeError(reply)) @@ [raised |-> <<JSONDecodeError(reply)>>]
    ELSE LET out == azure_extract(reply.body.json)
         IN IF out.kind = "return"
            THEN [pc |-> "done", result |-> out, raised |-> <<>>]
            ELSE azure_except(out.exc) @@ [raised |-> <<out.exc>>]

\* from the answer of requests.post to the end of the call: the position, the
\* result and the exceptions raised on the way
azure_receive(reply) ==
    IF reply.kind = "exception"
    THEN azure_except(reply.exc) @@ [raised |-> <<reply.exc>>]
    ELSE IF 400 <= reply.status_code /\ reply.status_code < 600
    THEN azure_except(HTTPError(reply)) @@ [raised |-> <<HTTPError(reply)>>]
    ELSE IF ~reply.body.valid
    THEN azure_except(JSONDecodeError(reply)) @@ [raised |-> <<JSONDecodeError(reply)>>]
    ELSE LET out == azure_extract(reply.body.json)
         IN IF out.kind = "return"
            THEN [pc |-> "done", result |-> out, raised |-> <<>>]
            ELSE azure_except(out.exc) @@ [raised |-> <<out.exc>>]

(***************************************************************************)
(* What the Azure endpoint may answer.                                     *)
(***************************************************************************)
Messages ==
    {[role |-> "assistant"]} \cup {[role |-> "assistant", content |-> t] : t \in Texts}

LegacyTexts == {<<"l", SP>>}

\* the first choice: with or without a message, with or without a 'text'
FirstChoices ==
    {[index |-> 0]}
    \cup {[index |-> 0, text |-> t] : t \in LegacyTexts}
    \cup {[index |-> 0, message |-> m] : m \in Messages}
    \cup {[index |-> 0, message |-> m, text |-> t] : m \in Messages, t \in LegacyTexts}

\* the choices after the first, which the code never reads
LaterChoices ==
    {[index |-> 1, text |-> <<"x">>],
     [index |-> 1, message |-> [role |-> "assistant", content |-> <<"z", SP>>]]}

ChoiceLists ==
    {<<>>} \cup {<<c>> \o rest : c \in FirstChoices,
                                rest \in SeqsUpTo(LaterChoices, MaxChoices - 1)}

OutputTexts == {<<"d">>}

AzureJson ==
    {JObj([choices |-> cs]) : cs \in ChoiceLists}
    \cup {JObj([choices |-> cs, output |-> o]) : cs \in ChoiceLists, o \in OutputTexts}
    \cup {JObj([output |-> o]) : o \in OutputTexts}
    \cup {JObj([unexpected |-> <<"shape">>])}
    \cup {JList(<<>>), JList(<<[generated_text |-> <<"h">>]>>)}

ErrorBodies ==
    {[valid |-> FALSE, raw |-> "<html>"],
     [valid |-> TRUE, json |-> JObj([error |-> <<"denied">>])],
     [valid |-> TRUE,
      json |-> JObj([choices |-> <<[index |-> 0,
                                    message |-> [role |-> "assistant",
                                                 content |-> <<"a">>]]>>])]}

AzureReplies ==
    {[kind |-> "exception", exc |-> Exc(t, <<"transport">>, NoDetail)] :
        t \in {"requests.exceptions.Timeout", "requests.exceptions.ConnectionError"}}
    \cup {[kind |-> "response", status_code |-> s, body |-> b] :
            s \in {304, 401, 500}, b \in ErrorBodies}
    \cup {[kind |-> "response", status_code |-> 200, body |-> b] : b \in ErrorBodies}
    \cup {[kind |-> "response", status_code |-> 200,
           body |-> [valid |-> TRUE, json |-> j]] : j \in AzureJson}

NoResponse == [kind |-> "none"]

(***************************************************************************)
(* The operations of azureFoundry.py.                                      *)
(***************************************************************************)
Call(fn, arg) == [fn |-> fn, arg |-> arg]

FileNotFoundError(image_path) ==
    Exc("FileNotFoundError", <<"Image file not found: ">>, [k |-> "path", path |-> image_path])

\* the environment, and the report, which the send operations never touch
EnvUnchanged ==
    UNCHANGED <<module, AZURE_OPENAI_ENDPOINT, AZURE_OPENAI_API_KEY,
                GOOGLE_CLOUD_PROJECT, GOOGLE_APPLICATION_CREDENTIALS,
                VERTEX_AI_LOCATION, output, report>>

\* an operation ends before any call to the outside, raising e
FailEarly(e) ==
    /\ pc' = "done"
    /\ result' = Raise(e)
    /\ raised' = <<e>>
    /\ calls' = <<>>
    /\ response' = NoResponse

\* call_azure_openai_gpt4(msgs), up to requests.post
EnterCallAzure(msgs) ==
    /\ messages' = msgs
    /\ content_parts' = <<>>
    /\ IF azure_config_error # <<>>
       THEN FailEarly(azure_config_error[1])
       ELSE /\ pc' = "az_post"
            /\ result' = NoResult
            /\ raised' = <<>>
            /\ calls' = <<>>
            /\ response' = NoResponse

AzureSendTextMessage ==
    /\ module = "azureFoundry"
    /\ pc = "idle"
    /\ \E text_content \in UserTexts, system_arg \in SystemArgs :
          LET system_prompt == Default(system_arg, <<"You are a helpful assistant.">>)
          IN /\ op' = [name |-> "send_text_message", text |-> text_content,
                       system |-> system_prompt, image_paths |-> <<>>]
             /\ EnterCallAzure(azure_text_messages(text_content, system_prompt))
    /\ EnvUnchanged

AzureSendImageMessage ==
    /\ module = "azureFoundry"
    /\ pc = "idle"
    /\ \E image_path \in Paths, prompt_arg \in PromptArgs, system_arg \in SystemArgs :
          LET text_prompt == Default(prompt_arg, <<"What do you see in this image?">>)
              system_prompt ==
                  Default(system_arg, <<"You are a helpful assistant that can analyze images.">>)
          IN /\ op' = [name |-> "send_image_message", text |-> text_prompt,
                       system |-> system_prompt, image_paths |-> <<image_path>>]
             /\ IF ~Exists(image_path)
                THEN /\ FailEarly(FileNotFoundError(image_path))
                     /\ messages' = <<>>
                     /\ content_parts' = <<>>
                ELSE EnterCallAzure(
                         azure_image_messages(image_path, text_prompt, system_prompt))
    /\ EnvUnchanged

\* requests.post answers, and the call runs to its end
AzurePost ==
    /\ pc = "az_post"
    /\ \E reply \in AzureReplies :
          LET out == azure_receive(reply)
          IN /\ calls' = Append(calls, Call("requests.post", "chat/completions"))
             /\ response' = reply
             /\ pc' = out.pc
             /\ result' = out.result
             /\ raised' = raised \o out.raised
    /\ UNCHANGED <<op, messages, content_parts>>
    /\ EnvUnchanged

\* the caller has its answer; the script may be asked again
Finish ==
    /\ pc = "done"
    /\ pc' = "idle"
    /\ op' = NoOp
    /\ messages' = <<>>
    /\ content_parts' = <<>>
    /\ response' = NoResponse
    /\ result' = NoResult
    /\ calls' = <<>>
    /\ raised' = <<>>
    /\ EnvUnchanged

(***************************************************************************)
(* vertex.py: the content parts.                                           *)
(***************************************************************************)
TextPart(text) == [type |-> "text", text |-> text]

\* Part.from_data(data=image_data, mime_type=mime_type)
ImagePart(image_data, mime_type) ==
    [type |-> "image", data |-> image_data, mime_type |-> mime_type]

\* a faulty variant of vertex_full_prompt: the system instruction is left out
vertex_full_prompt_no_system(system_instruction, text) ==
    <<"User: ">> \o text

\* f"System: {system_instruction}\n\nUser: {text}"
vertex_full_prompt(system_instruction, text) ==
    <<"System: ">> \o system_instruction \o <<"\n\nUser: ">> \o text

\* encode_image_for_vertex: the image part, or FileNotFoundError
encode_image_for_vertex(image_path) ==
    IF ~Exists(image_path)
    THEN Raise(FileNotFoundError(image_path))
    ELSE LET file_ext == Lower(PathSuffix(image_path))
             mime_type == vertex_mime_type(file_ext)
             image_data == ReadBytes(image_path)
         IN Return(ImagePart(image_data, mime_type))

\* the loop of send_multimodal_message over image_paths: each image is encoded
\* and appended; the first one that fails ends the loop
RECURSIVE append_images(_, _)
append_images(parts, image_paths) ==
    IF image_paths = <<>> THEN Return(parts)
    ELSE LET image_part == encode_image_for_vertex(Head(image_paths))
         IN IF image_part.kind = "raise" THEN image_part
            ELSE append_images(Append(parts, image_part.value), Tail(image_paths))

\* a faulty variant of the loop: an image that does not exist is skipped
RECURSIVE append_images_skipping(_, _)
append_images_skipping(parts, image_paths) ==
    IF image_paths = <<>> THEN Return(parts)
    ELSE LET image_part == encode_image_for_vertex(Head(image_paths))
         IN IF image_part.kind = "raise"
            THEN append_images_skipping(parts, Tail(image_paths))
            ELSE append_images_skipping(Append(parts, image_part.value),
                                        Tail(image_paths))

\* a faulty variant of the loop: each image is put right after the text part
RECURSIVE append_images_reversed(_, _)
append_images_reversed(parts, image_paths) ==
    IF image_paths = <<>> THEN Return(parts)
    ELSE LET image_part == encode_image_for_vertex(Head(image_paths))
         IN IF image_part.kind = "raise" THEN image_part
            ELSE append_images_reversed(
                     <<Head(parts), image_part.value>> \o Tail(parts),
                     Tail(image_paths))

\* a faulty variant of multimodal_content_parts: missing images are skipped
multimodal_content_parts_skipping(text_content, image_paths, system_instruction) ==
    append_images_skipping(
        <<TextPart(vertex_full_prompt(system_instruction, text_content))>>, image_paths)

\* a faulty variant of multimodal_content_parts: the images come out in reverse
multimodal_content_parts_reversed(text_content, image_paths, system_instruction) ==
    append_images_reversed(
        <<TextPart(vertex_full_prompt(system_instruction, text_content))>>, image_paths)

\* send_multimodal_message: the content parts, or the exception of the first
\* image that cannot be encoded (image_paths None or empty: the text part alone)
multimodal_content_parts(text_content, image_paths, system_instruction) ==
    append_images(
        <<TextPart(vertex_full_prompt(system_instruction, text_content))>>, image_paths)

(***************************************************************************)
(* vertex.py: initialize_vertex_ai and call_vertex_ai.                     *)
(***************************************************************************)
\* a faulty variant of initialize_vertex_ai: it reports success whatever was raised
initialize_vertex_ai_always_true(outcome) ==
    [ok |-> TRUE,
     calls |-> <<Call("vertexai.init", "default")>>,
     raised |-> IF outcome.init.kind = "raise" THEN <<outcome.init.exc>> ELSE <<>>]

\* initialize_vertex_ai under the outcome of its SDK calls: whether it
\* returned True, the calls it made and the exceptions raised inside it
initialize_vertex_ai(outcome) ==
    IF ~Falsy(GOOGLE_APPLICATION_CREDENTIALS)
       /\ CredentialsFileExists(GOOGLE_APPLICATION_CREDENTIALS)
    THEN IF outcome.credentials.kind = "raise"
         THEN [ok |-> FALSE,
               calls |-> <<Call("Credentials.from_service_account_file", "file")>>,
               raised |-> <<outcome.credentials.exc>>]
         ELSE IF outcome.init.kind = "raise"
         THEN [ok |-> FALSE,
               calls |-> <<Call("Credentials.from_service_account_file", "file"),
                           Call("vertexai.init", "credentials")>>,
               raised |-> <<outcome.init.exc>>]
         ELSE [ok |-> TRUE,
               calls |-> <<Call("Credentials.from_service_account_file", "file"),
                           Call("vertexai.init", "credentials")>>,
               raised |-> <<>>]
    ELSE IF outcome.init.kind = "raise"
         THEN [ok |-> FALSE, calls |-> <<Call("vertexai.init", "default")>>,
               raised |-> <<outcome.init.exc>>]
         ELSE [ok |-> TRUE, calls |-> <<Call("vertexai.init", "default")>>,
               raised |-> <<>>]

RuntimeError == Exc("RuntimeError", <<"Failed to initialize Vertex AI">>, NoDetail)

\* a faulty variant of vertex_blocked: the finish reason is never looked at
vertex_blocked_generic(resp) ==
    Raise(Exc("ValueError", <<"No text generated in response">>, NoDetail))

\* the response has no text: the first candidate's finish reason, if it has
\* one, is raised; else the generic failure
vertex_blocked(resp) ==
    IF "candidates" \in DOMAIN resp /\ resp.candidates # <<>>
       /\ "finish_reason" \in DOMAIN resp.candidates[1]
    THEN Raise(Exc("ValueError", <<"Generation stopped due to: ">>,
                   [k |-> "finish_reason",
                    finish_reason |-> resp.candidates[1].finish_reason]))
    ELSE Raise(Exc("ValueError", <<"No text generated in response">>, NoDetail))

\* the extraction of the answer from the response of generate_content
vertex_extract(resp) ==
    IF resp.text # <<>>
    THEN Return(Strip(resp.text))
    ELSE vertex_blocked(resp)

\* a faulty variant of vertex_except: generate_content is called again after a failure
vertex_except_retry(e) == [pc |-> "vx_generate", result |-> NoResult]

\* the except clause of call_vertex_ai: it prints and raises the exception again
vertex_except(e) == [pc |-> "done", result |-> Raise(e)]

\* from GenerativeModel(...) to the end of the call: the position, the result,
\* the calls made and the exceptions raised
vertex_generate(reply) ==
    IF reply.kind = "model_exception"
    THEN vertex_except(reply.exc) @@ [calls |-> <<>>, raised |-> <<reply.exc>>]
    ELSE IF reply.kind = "exception"
    THEN vertex_except(reply.exc)
         @@ [calls |-> <<Call("generate_content", "content_parts")>>,
             raised |-> <<reply.exc>>]
    ELSE LET out == vertex_extract(reply.response)
         IN IF out.kind = "return"
            THEN [pc |-> "done", result |-> out,
                  calls |-> <<Call("generate_content", "content_parts")>>,
                  raised |-> <<>>]
            ELSE vertex_except(out.exc)
                 @@ [calls |-> <<Call("generate_content", "content_parts")>>,
                     raised |-> <<out.exc>>]

(***************************************************************************)
(* What the Vertex SDK may answer.                                         *)
(***************************************************************************)
Ok == [kind |-> "ok"]

InitOutcomes ==
    [credentials : {Ok, Raise(Exc("google.auth.exceptions.MalformedError",
                                  <<"bad key file">>, NoDetail))},
     init : {Ok, Raise(Exc("google.auth.exceptions.DefaultCredentialsError",
                           <<"no credentials">>, NoDetail))}]

\* the first candidate: with a finish reason, or without the attribute
FirstCandidates ==
    {[index |-> 0, finish_reason |-> "SAFETY"],
     [index |-> 0, finish_reason |-> "MAX_TOKENS"],
     [index |-> 0]}

\* the candidates after the first, which the code never reads
LaterCandidates == {[index |-> 1, finish_reason |-> "RECITATION"], [index |-> 1]}

CandidateLists ==
    {<<>>} \cup {<<c>> \o rest : c \in FirstCandidates,
                                rest \in SeqsUpTo(LaterCandidates, MaxCandidates - 1)}

VertexResponses ==
    {[text |-> t] : t \in Texts}
    \cup {[text |-> t, candidates |-> cs] : t \in Texts, cs \in CandidateLists}

VertexReplies ==
    {[kind |-> "model_exception",
      exc |-> Exc("ValueError", <<"unknown model">>, NoDetail)]}
    \cup {[kind |-> "exception", exc |-> Exc(t, <<"api">>, NoDetail)] :
            t \in {"google.api_core.exceptions.PermissionDenied",
                   "google.api_core.exceptions.DeadlineExceeded"}}
    \cup {[kind |-> "response", response |-> r] : r \in VertexResponses}

(***************************************************************************)
(* The operations of vertex.py.                                            *)
(***************************************************************************)
\* call_vertex_ai(parts) is entered: next comes initialize_vertex_ai
EnterCallVertex(parts) ==
    /\ content_parts' = parts
    /\ messages' = <<>>
    /\ pc' = "vx_init"
    /\ result' = NoResult
    /\ raised' = <<>>
    /\ calls' = <<>>
    /\ response' = NoResponse

VertexSendTextMessage ==
    /\ module = "vertex"
    /\ pc = "idle"
    /\ \E text_content \in UserTexts, system_arg \in SystemArgs :
          LET system_instruction ==
                  Default(system_arg, <<"You are a helpful assistant.">>)
          IN /\ op' = [name |-> "send_text_message", text |-> text_content,
                       system |-> system_instruction, image_paths |-> <<>>]
             /\ EnterCallVertex(
                    <<TextPart(vertex_full_prompt(system_instruction, text_content))>>)
    /\ EnvUnchanged

VertexSendImageMessage ==
    /\ module = "vertex"
    /\ pc = "idle"
    /\ \E image_path \in Paths, prompt_arg \in PromptArgs, system_arg \in SystemArgs :
          LET text_prompt == Default(prompt_arg, <<"What do you see in this image?">>)
              system_instruction ==
                  Default(system_arg, <<"You are a helpful assistant that can analyze images.">>)
              image_part == encode_image_for_vertex(image_path)
          IN /\ op' = [name |-> "send_image_message", text |-> text_prompt,
                       system |-> system_instruction, image_paths |-> <<image_path>>]
             /\ IF image_part.kind = "raise"
                THEN /\ FailEarly(image_part.exc)
                     /\ messages' = <<>>
                     /\ content_parts' = <<>>
                ELSE EnterCallVertex(
                         <<TextPart(vertex_full_prompt(system_instruction, text_prompt)),
                           image_part.value>>)
    /\ EnvUnchanged

\* image_paths is a list, or None when the caller leaves it out: both an empty
\* list and None skip the loop
VertexSendMultimodalMessage ==
    /\ module = "vertex"
    /\ pc = "idle"
    /\ \E text_content \in UserTexts, image_paths \in SeqsUpTo(Paths, MaxImages),
          paths_given \in BOOLEAN, system_arg \in SystemArgs :
          LET system_instruction ==
                  Default(system_arg, <<"You are a helpful assistant.">>)
              parts == multimodal_content_parts(text_content, image_paths,
                                                system_instruction)
          IN /\ paths_given \/ image_paths = <<>>
             /\ op' = [name |-> "send_multimodal_message", text |-> text_content,
                       system |-> system_instruction, image_paths |-> image_paths,
                       paths_given |-> paths_given]
             /\ IF parts.kind = "raise"
                THEN /\ FailEarly(parts.exc)
                     /\ messages' = <<>>
                     /\ content_parts' = <<>>
                ELSE EnterCallVertex(parts.value)
    /\ EnvUnchanged

\* initialize_vertex_ai runs; call_vertex_ai raises RuntimeError when it failed
VertexInit ==
    /\ pc = "vx_init"
    /\ \E outcome \in InitOutcomes :
          LET init == initialize_vertex_ai(outcome)
          IN /\ calls' = calls \o init.calls
             /\ IF init.ok
                THEN /\ pc' = "vx_generate"
                     /\ result' = NoResult
                     /\ raised' = raised \o init.raised
                ELSE /\ pc' = "done"
                     /\ result' = Raise(RuntimeError)
                     /\ raised' = raised \o init.raised \o <<RuntimeError>>
    /\ UNCHANGED <<op, messages, content_parts, response>>
    /\ EnvUnchanged

\* the model is built and generate_content answers; the call runs to its end
VertexGenerate ==
    /\ pc = "vx_generate"
    /\ \E reply \in VertexReplies :
          LET out == vertex_generate(reply)
          IN /\ calls' = calls \o out.calls
             /\ response' = reply
             /\ pc' = out.pc
             /\ result' = out.result
             /\ raised' = raised \o out.raised
    /\ UNCHANGED <<op, messages, content_parts>>
    /\ EnvUnchanged

(***************************************************************************)
(* The programs.                                                           *)
(***************************************************************************)
\* each script reads its own variables when it is loaded
InitEnv ==
    \/ /\ module = "azureFoundry"
       /\ AZURE_OPENAI_ENDPOINT \in {Unset, "", "https://r.openai.azure.com/"}
       /\ AZURE_OPENAI_API_KEY \in {Unset, "key"}
       /\ GOOGLE_CLOUD_PROJECT = Unset
       /\ GOOGLE_APPLICATION_CREDENTIALS = Unset
    \/ /\ module = "vertex"
       /\ AZURE_OPENAI_ENDPOINT = Unset
       /\ AZURE_OPENAI_API_KEY = Unset
       /\ GOOGLE_CLOUD_PROJECT \in {Unset, "my-project"}
       /\ GOOGLE_APPLICATION_CREDENTIALS \in {Unset, "key.json", "gone.json"}

\* nothing has been called yet
InitIdle ==
    /\ pc = "idle"
    /\ messages = <<>>
    /\ content_parts = <<>>
    /\ response = NoResponse
    /\ result = NoResult
    /\ calls = <<>>
    /\ raised = <<>>
    /\ output = <<>>
    /\ report = NoReport

Init ==
    /\ InitEnv
    /\ VERTEX_AI_LOCATION = Unset
    /\ op = NoOp
    /\ InitIdle

Next ==
    \/ AzureSendTextMessage
    \/ AzureSendImageMessage
    \/ AzurePost
    \/ VertexSendTextMessage
    \/ VertexSendImageMessage
    \/ VertexSendMultimodalMessage
    \/ VertexInit
    \/ VertexGenerate
    \/ Finish

Spec == Init /\ [][Next]_vars

(***************************************************************************)
(* The MIME resolution of the two scripts, as a function of the file name  *)
(* alone: the operations apply it to the path they are handed.             *)
(***************************************************************************)
\* file_ext = Path(image_path).suffix.lower(); mime_type_map.get(file_ext, ...)
azure_resolve_mime(image_path) == azure_mime_type(Lower(PathSuffix(image_path)))

vertex_resolve_mime(image_path) == vertex_mime_type(Lower(PathSuffix(image_path)))

\* the names before the extension: plain, dotted, in a dotted directory, capitals
MimeStems ==
    {<<"a">>, <<"x", ".", "t">>, <<"d", ".", "p", "n", "g", "/", "f">>,
     <<"I", "M", "G">>}

\* the extensions as written
MimeExtensions ==
    {<<".", "j", "p", "g">>, <<".", "J", "P", "G">>, <<".", "j", "p", "e", "g">>,
     <<".", "J", "p", "e", "g">>, <<".", "J", "P", "E", "G">>,
     <<".", "p", "n", "g">>, <<".", "P", "N", "G">>, <<".", "P", "n", "g">>,
     <<".", "g", "i", "f">>, <<".", "G", "I", "F">>,
     <<".", "w", "e", "b", "p">>, <<".", "W", "E", "B", "P">>,
     <<".", "W", "e", "b", "P">>,
     <<".", "b", "m", "p">>, <<".", "B", "M", "P">>, <<".", "p", "n", "g", "x">>,
     <<".", "j", "p">>, <<>>}

MimePaths == {stem \o ext : stem \in MimeStems, ext \in MimeExtensions}

InitMime ==
    /\ module \in {"azureFoundry", "vertex"}
    /\ AZURE_OPENAI_ENDPOINT = Unset
    /\ AZURE_OPENAI_API_KEY = Unset
    /\ GOOGLE_CLOUD_PROJECT = Unset
    /\ GOOGLE_APPLICATION_CREDENTIALS = Unset
    /\ VERTEX_AI_LOCATION = Unset
    /\ \E image_path \in MimePaths :
          op = [name |-> "resolve_mime", image_paths |-> <<image_path>>]
    /\ InitIdle

AzureResolveMime ==
    /\ module = "azureFoundry"
    /\ pc = "idle"
    /\ op.name = "resolve_mime"
    /\ pc' = "done"
    /\ result' = Return(azure_resolve_mime(op.image_paths[1]))
    /\ UNCHANGED <<op, messages, content_parts, response, calls, raised>>
    /\ EnvUnchanged

VertexResolveMime ==
    /\ module = "vertex"
    /\ pc = "idle"
    /\ op.name = "resolve_mime"
    /\ pc' = "done"
    /\ result' = Return(vertex_resolve_mime(op.image_paths[1]))
    /\ UNCHANGED <<op, messages, content_parts, response, calls, raised>>
    /\ EnvUnchanged

NextMime ==
    \/ AzureResolveMime
    \/ VertexResolveMime

SpecMime == InitMime /\ [][NextMime]_vars

(***************************************************************************)
(* eu-residency-validation.py: the checks.  Each is computed under the     *)
(* outcome of its provider calls and gives the value it returns, the lines *)
(* it prints, the calls it makes and the exceptions raised inside it.      *)
(***************************************************************************)
\* a printed line: its literal text and the values formatted into it
Line(text, arg) == [text |-> text, arg |-> arg]

Blank == Line("", <<>>)

\* an exception of a provider call, which names the call that raised it
CallFailed(type, fn) == Exc(type, <<"denied">>, [k |-> "call", call |-> fn])

Contains(s, sub) ==
    \E i \in 1..(Len(s) - Len(sub) + 1) : SubSeq(s, i, i + Len(sub) - 1) = sub

StartsWith(s, prefix) ==
    Len(prefix) <= Len(s) /\ SubSeq(s, 1, Len(prefix)) = prefix

eu_regions ==
    <<"europe-west1", "europe-west2", "europe-west3", "europe-west4",
      "europe-west6", "europe-west8", "europe-west9", "europe-west10",
      "europe-central2", "europe-north1">>

InList(v, list) == \E i \in 1..Len(list) : list[i] = v

\* os.getenv(name, default)
Getenv(v, dflt) == IF v = Unset THEN dflt ELSE v

check_vertex_ai_region ==
    LET location == Getenv(VERTEX_AI_LOCATION, "us-central1")
    IN IF InList(location, eu_regions)
       THEN [value |-> TRUE,
             output |-> <<Line("Vertex AI region: (EU compliant)", <<location>>)>>,
             calls |-> <<>>, raised |-> <<>>]
       ELSE [value |-> FALSE,
             output |-> <<Line("Vertex AI region: (NOT EU compliant)", <<location>>)>>,
             calls |-> <<>>, raised |-> <<>>]

validate_vertex_ai_connection(outcome) ==
    LET location == VERTEX_AI_LOCATION
    IN IF outcome.kind = "raise"
       THEN [value |-> FALSE,
             output |-> <<Line("Failed to initialize Vertex AI: ", outcome.exc.msg)>>,
             calls |-> <<Call("vertexai.init", location)>>,
             raised |-> <<outcome.exc>>]
       ELSE [value |-> TRUE,
             output |-> <<Line("Vertex AI initialized successfully in ", <<location>>),
                          Line("   Endpoint: https://-aiplatform.googleapis.com",
                               <<location>>)>>,
             calls |-> <<Call("vertexai.init", location)>>,
             raised |-> <<>>]

\* Python's None, which the checks without a verdict return
None == Unset

\* print(f"...: {names}") when the list is not empty
PrintIf(cond, text, arg) == IF cond THEN <<Line(text, arg)>> ELSE <<>>

IsEuSink(sink) ==
    \/ Contains(Lower(sink.destination), <<"e", "u", "r", "o", "p", "e">>)
    \/ Contains(Lower(sink.destination), <<"e", "u">>)

\* the names appended for the sinks, in order
SinkNames(sinks) == [i \in 1..Len(sinks) |-> sinks[i].name]

check_logging_configuration(outcome) ==
    IF outcome.kind = "client_exception"
    THEN [value |-> None,
          output |-> <<Line("Could not check logging configuration: ", outcome.exc.msg)>>,
          calls |-> <<Call("logging_v2.Client", "")>>,
          raised |-> <<outcome.exc>>]
    ELSE IF outcome.kind = "list_exception"
    THEN [value |-> None,
          output |-> <<Line("Could not check logging configuration: ", outcome.exc.msg)>>,
          calls |-> <<Call("logging_v2.Client", ""), Call("list_sinks", "")>>,
          raised |-> <<outcome.exc>>]
    ELSE LET sinks == outcome.items
             eu_sinks == SinkNames(SelectSeq(sinks, IsEuSink))
             non_eu_sinks ==
                 SinkNames(SelectSeq(sinks, LAMBDA sink : ~IsEuSink(sink)))
         IN [value |-> None,
             output |->
                 PrintIf(eu_sinks # <<>>, "Found EU logging sinks: ", eu_sinks)
                 \o PrintIf(non_eu_sinks # <<>>, "Found non-EU logging sinks: ",
                            non_eu_sinks)
                 \o PrintIf(sinks = <<>>,
                            "No custom logging sinks found - logs may use default global storage",
                            <<>>),
             calls |-> <<Call("logging_v2.Client", ""), Call("list_sinks", "")>>,
             raised |-> <<>>]

\* f"{id} ({location})"
WithLocation(id, location) == <<id, " (">> \o location \o <<")">>

IsEuDataset(dataset) ==
    \/ dataset.get.location = <<"E", "U">>
    \/ StartsWith(dataset.get.location, <<"e", "u", "r", "o", "p", "e">>)

\* the items appended for the datasets, in order
DatasetItems(datasets) ==
    [i \in 1..Len(datasets) |->
        WithLocation(datasets[i].dataset_id, datasets[i].get.location)]

\* client.get_dataset for each dataset, in order
GetDatasetCalls(datasets) ==
    [i \in 1..Len(datasets) |-> Call("get_dataset", datasets[i].dataset_id)]

\* the datasets up to the first whose get_dataset raises, that one included
UpToFirstFailure(datasets) ==
    LET failing == {i \in 1..Len(datasets) : datasets[i].get.kind = "raise"}
    IN IF failing = {} THEN datasets
       ELSE SubSeq(datasets, 1, CHOOSE i \in failing : \A j \in failing : i <= j)

check_bigquery_datasets(outcome) ==
    IF outcome.kind = "client_exception"
    THEN [value |-> None,
          output |-> <<Line("Could not check BigQuery datasets: ", outcome.exc.msg)>>,
          calls |-> <<Call("bigquery.Client", "")>>,
          raised |-> <<outcome.exc>>]
    ELSE IF outcome.kind = "list_exception"
    THEN [value |-> None,
          output |-> <<Line("Could not check BigQuery datasets: ", outcome.exc.msg)>>,
          calls |-> <<Call("bigquery.Client", ""), Call("list_datasets", "")>>,
          raised |-> <<outcome.exc>>]
    ELSE LET datasets == outcome.items
             looked_up == UpToFirstFailure(datasets)
             lookups == GetDatasetCalls(looked_up)
             eu_datasets == DatasetItems(SelectSeq(datasets, IsEuDataset))
             non_eu_datasets ==
                 DatasetItems(SelectSeq(datasets, LAMBDA d : ~IsEuDataset(d)))
         IN IF looked_up # <<>> /\ looked_up[Len(looked_up)].get.kind = "raise"
            THEN [value |-> None,
                  output |-> <<Line("Could not check BigQuery datasets: ",
                                    looked_up[Len(looked_up)].get.exc.msg)>>,
                  calls |-> <<Call("bigquery.Client", ""), Call("list_datasets", "")>>
                            \o lookups,
                  raised |-> <<looked_up[Len(looked_up)].get.exc>>]
            ELSE [value |-> None,
                  output |->
                      PrintIf(eu_datasets # <<>>, "EU BigQuery datasets: ", eu_datasets)
                      \o PrintIf(non_eu_datasets # <<>>, "Non-EU BigQuery datasets: ",
                                 non_eu_datasets),
                  calls |-> <<Call("bigquery.Client", ""), Call("list_datasets", "")>>
                            \o lookups,
                  raised |-> <<>>]

IsEuBucket(bucket) ==
    \/ bucket.location = <<"E", "U">>
    \/ StartsWith(bucket.location, <<"E", "U", "R", "O", "P", "E">>)

\* the items appended for the buckets, in order
BucketItems(buckets) ==
    [i \in 1..Len(buckets) |-> WithLocation(buckets[i].name, buckets[i].location)]

check_storage_buckets(outcome) ==
    IF outcome.kind = "client_exception"
    THEN [value |-> None,
          output |-> <<Line("Could not check storage buckets: ", outcome.exc.msg)>>,
          calls |-> <<Call("storage.Client", "")>>,
          raised |-> <<outcome.exc>>]
    ELSE IF outcome.kind = "list_exception"
    THEN [value |-> None,
          output |-> <<Line("Could not check storage buckets: ", outcome.exc.msg)>>,
          calls |-> <<Call("storage.Client", ""), Call("list_buckets", "")>>,
          raised |-> <<outcome.exc>>]
    ELSE LET buckets == outcome.items
             eu_buckets == BucketItems(SelectSeq(buckets, IsEuBucket))
             non_eu_buckets ==
                 BucketItems(SelectSeq(buckets, LAMBDA b : ~IsEuBucket(b)))
         IN [value |-> None,
             output |->
                 PrintIf(eu_buckets # <<>>, "EU Storage buckets: ", eu_buckets)
                 \o PrintIf(non_eu_buckets # <<>>, "Non-EU Storage buckets: ",
                            non_eu_buckets),
             calls |-> <<Call("storage.Client", ""), Call("list_buckets", "")>>,
             raised |-> <<>>]

check_project_location_policy(outcome) ==
    IF outcome.kind = "raise"
    THEN [value |-> None,
          output |-> <<Line("Could not check location policy: ", outcome.exc.msg)>>,
          calls |-> <<Call("resource_manager.Client", "")>>,
          raised |-> <<outcome.exc>>]
    ELSE [value |-> None,
          output |->
              <<Line("Project location policy check requires organization admin access",
                     <<>>),
                Line("   Manually verify organization policies restrict resources to EU",
                     <<>>)>>,
          calls |-> <<Call("resource_manager.Client", "")>>,
          raised |-> <<>>]

(***************************************************************************)
(* eu-residency-validation.py: generate_compliance_report, one step per    *)
(* section, and what the providers may answer.                             *)
(***************************************************************************)
Rule60 == Line("============================================================", <<>>)

Rule30 == Line("------------------------------", <<>>)

\* a section of the report: its heading, the lines of its checks, a blank line
Section(heading, lines) == <<Line(heading, <<>>), Rule30>> \o lines \o <<Blank>>

\* a faulty variant of report_summary: the connection test is not looked at
report_summary_region_only(vertex_compliant, vertex_connected) ==
    IF vertex_compliant
    THEN Line("Vertex AI: EU compliant", <<>>)
    ELSE Line("Vertex AI: NOT EU compliant", <<>>)

\* the verdict line of the summary
report_summary(vertex_compliant, vertex_connected) ==
    IF vertex_compliant /\ vertex_connected
    THEN Line("Vertex AI: EU compliant", <<>>)
    ELSE Line("Vertex AI: NOT EU compliant", <<>>)

Recommendations ==
    <<Line("RECOMMENDATIONS:", <<>>),
      Line("- Ensure all logging sinks point to EU destinations", <<>>),
      Line("- Create BigQuery datasets with location=EU", <<>>),
      Line("- Use Cloud Storage buckets with location=EU or EUROPE-*", <<>>),
      Line("- Set up organization policies to restrict to EU regions", <<>>),
      Line("- Enable VPC Service Controls for additional protection", <<>>)>>

Locations ==
    {Unset, "", "us-central1", "europe-north1", "Europe-West1"}

ConnectionOutcomes ==
    {Ok, Raise(CallFailed("google.auth.exceptions.DefaultCredentialsError",
                          "vertexai.init"))}

\* what a check's client and listing may do: fail, or list some resources
ListingOutcomes(client, list, resources) ==
    {[kind |-> "client_exception",
      exc |-> CallFailed("google.auth.exceptions.DefaultCredentialsError", client)],
     [kind |-> "list_exception",
      exc |-> CallFailed("google.api_core.exceptions.PermissionDenied", list)]}
    \cup {[kind |-> "listed", items |-> items] :
            items \in SeqsUpTo(resources, MaxResources)}

Sinks ==
    {[name |-> "eu-sink", destination |-> <<"E", "U">>],
     [name |-> "us-sink", destination |-> <<"u", "s">>]}

Datasets ==
    {[dataset_id |-> "d1", get |-> [kind |-> "ok", location |-> <<"E", "U">>]],
     [dataset_id |-> "d2", get |-> [kind |-> "ok", location |-> <<"U", "S">>]],
     [dataset_id |-> "d3",
      get |-> Raise(CallFailed("google.api_core.exceptions.NotFound", "get_dataset"))]}

Buckets ==
    {[name |-> "b1", location |-> <<"E", "U", "R", "O", "P", "E", "-", "W", "1">>],
     [name |-> "b2", location |-> <<"U", "S">>]}

PolicyOutcomes ==
    {Ok, Raise(CallFailed("google.auth.exceptions.DefaultCredentialsError",
                          "resource_manager.Client"))}

ReportUnchanged ==
    UNCHANGED <<module, AZURE_OPENAI_ENDPOINT, AZURE_OPENAI_API_KEY,
                GOOGLE_CLOUD_PROJECT, GOOGLE_APPLICATION_CREDENTIALS,
                VERTEX_AI_LOCATION, op, messages, content_parts, response>>

\* the title and section 1: the region check, then the connection test
ReportVertexAI ==
    /\ module = "eu-residency-validation"
    /\ pc = "idle"
    /\ \E outcome \in ConnectionOutcomes :
          LET region == check_vertex_ai_region
              connection == validate_vertex_ai_connection(outcome)
          IN /\ report' = [section |-> 1,
                           vertex_compliant |-> region.value,
                           vertex_connected |-> connection.value]
             /\ output' = output
                   \o <<Rule60, Line("EU DATA RESIDENCY VALIDATION REPORT", <<>>),
                        Rule60, Blank>>
                   \o Section("1. VERTEX AI CONFIGURATION",
                              region.output \o connection.output)
             /\ calls' = calls \o region.calls \o connection.calls
             /\ raised' = raised \o region.raised \o connection.raised
    /\ pc' = "report"
    /\ result' = NoResult
    /\ ReportUnchanged

\* what a section with one check leaves behind; its value is not kept
RunSection(heading, check) ==
    /\ output' = output \o Section(heading, check.output)
    /\ calls' = calls \o check.calls
    /\ raised' = raised \o check.raised

ReportLogging ==
    /\ pc = "report"
    /\ report.section = 1
    /\ report' = [report EXCEPT !.section = 2]
    /\ \E outcome \in ListingOutcomes("logging_v2.Client", "list_sinks", Sinks) :
          RunSection("2. LOGGING CONFIGURATION", check_logging_configuration(outcome))
    /\ UNCHANGED <<pc, result>>
    /\ ReportUnchanged

ReportBigQuery ==
    /\ pc = "report"
    /\ report.section = 2
    /\ report' = [report EXCEPT !.section = 3]
    /\ \E outcome \in ListingOutcomes("bigquery.Client", "list_datasets", Datasets) :
          RunSection("3. BIGQUERY DATASETS", check_bigquery_datasets(outcome))
    /\ UNCHANGED <<pc, result>>
    /\ ReportUnchanged

ReportStorage ==
    /\ pc = "report"
    /\ report.section = 3
    /\ report' = [report EXCEPT !.section = 4]
    /\ \E outcome \in ListingOutcomes("storage.Client", "list_buckets", Buckets) :
          RunSection("4. STORAGE BUCKETS", check_storage_buckets(outcome))
    /\ UNCHANGED <<pc, result>>
    /\ ReportUnchanged

ReportPolicies ==
    /\ pc = "report"
    /\ report.section = 4
    /\ report' = [report EXCEPT !.section = 5]
    /\ \E outcome \in PolicyOutcomes :
          RunSection("5. PROJECT POLICIES", check_project_location_policy(outcome))
    /\ UNCHANGED <<pc, result>>
    /\ ReportUnchanged

\* the summary and the recommendations; the report returns None
ReportSummary ==
    /\ pc = "report"
    /\ report.section = 5
    /\ report' = [report EXCEPT !.section = 6]
    /\ output' = output
          \o <<Rule60, Line("SUMMARY", <<>>), Rule60,
               report_summary(report.vertex_compliant, report.vertex_connected),
               Blank>>
          \o Recommendations
    /\ pc' = "done"
    /\ result' = Return(None)
    /\ UNCHANGED <<calls, raised>>
    /\ ReportUnchanged

InitReport ==
    /\ module = "eu-residency-validation"
    /\ AZURE_OPENAI_ENDPOINT = Unset
    /\ AZURE_OPENAI_API_KEY = Unset
    /\ GOOGLE_CLOUD_PROJECT = Unset
    /\ GOOGLE_APPLICATION_CREDENTIALS = Unset
    /\ VERTEX_AI_LOCATION \in Locations
    /\ op = [name |-> "generate_compliance_report"]
    /\ InitIdle

NextReport ==
    \/ ReportVertexAI
    \/ ReportLogging
    \/ ReportBigQuery
    \/ ReportStorage
    \/ ReportPolicies
    \/ ReportSummary

SpecReport == InitReport /\ [][NextReport]_vars

(***************************************************************************)
(* What the claims speak of.                                               *)
(***************************************************************************)
\* the Azure call is over and its response had a success status and a JSON body
AzureParsed ==
    /\ module = "azureFoundry"
    /\ pc = "done"
    /\ response.kind = "response"
    /\ ~(400 <= response.status_code /\ response.status_code < 600)
    /\ response.body.valid

\* the parsed response has a non-empty 'choices' whose first choice has
\* message.content
HasMessageContent(j) ==
    /\ ~j.isList
    /\ "choices" \in DOMAIN j.v
    /\ j.v.choices # <<>>
    /\ "message" \in DOMAIN j.v.choices[1]
    /\ "content" \in DOMAIN j.v.choices[1].message

\* the parsed response has a non-empty 'choices' whose first choice has 'text'
HasChoiceText(j) ==
    /\ ~j.isList
    /\ "choices" \in DOMAIN j.v
    /\ j.v.choices # <<>>
    /\ "text" \in DOMAIN j.v.choices[1]

HasOutput(j) == ~j.isList /\ "output" \in DOMAIN j.v

HasGeneratedText(j) ==
    j.isList /\ j.items # <<>> /\ "generated_text" \in DOMAIN j.items[1]

\* v is s without its leading and trailing whitespace
IsTrimOf(v, s) ==
    /\ \E i, j \in 0..Len(s) :
          /\ i + j <= Len(s)
          /\ v = SubSeq(s, i + 1, Len(s) - j)
          /\ \A k \in 1..i : s[k] \in Whitespace
          /\ \A k \in (Len(s) - j + 1)..Len(s) : s[k] \in Whitespace
    /\ v = <<>> \/ (v[1] \notin Whitespace /\ v[Len(v)] \notin Whitespace)

\* how many calls of fn the operation has made
RECURSIVE CountCalls(_, _)
CountCalls(log, fn) ==
    IF log = <<>> THEN 0
    ELSE (IF Head(log).fn = fn THEN 1 ELSE 0) + CountCalls(Tail(log), fn)

(***************************************************************************)
(* C1.  The claim as written: extraction tries choices[0].message.content, *)
(* choices[0].text, output and raw[0].generated_text in this order and     *)
(* returns the first that matches.                                         *)
(***************************************************************************)
C1_FirstMatchOfFourShapes ==
    AzureParsed =>
        LET j == response.body.json
        IN IF HasMessageContent(j)
           THEN result.kind = "return"
                /\ IsTrimOf(result.value, j.v.choices[1].message.content)
           ELSE IF HasChoiceText(j)
           THEN result.kind = "return" /\ IsTrimOf(result.value, j.v.choices[1].text)
           ELSE IF HasOutput(j)
           THEN result.kind = "return" /\ result.value = j.v.output
           ELSE IF HasGeneratedText(j)
           THEN result.kind = "return" /\ result.value = j.items[1].generated_text
           ELSE TRUE

(***************************************************************************)
(* C1, amended.  call_azure_openai_gpt4 knows one shape only: when the     *)
(* first choice has both message.content and text, the message.content is  *)
(* returned; a first choice with 'text' and no message.content, an         *)
(* 'output' without 'choices' and a top-level list yield no text: the call *)
(* raises ValueError.                                                      *)
(***************************************************************************)
C1_OnlyMessageContentIsExtracted ==
    AzureParsed =>
        LET j == response.body.json
        IN /\ (HasMessageContent(j) /\ HasChoiceText(j)) =>
                  /\ result.kind = "return"
                  /\ IsTrimOf(result.value, j.v.choices[1].message.content)
           /\ (~HasMessageContent(j)
               /\ (HasChoiceText(j) \/ HasOutput(j) \/ HasGeneratedText(j))) =>
                  /\ result.kind = "raise"
                  /\ result.exc.type = "ValueError"

C1_Witness ==
    /\ AzureParsed
    /\ HasChoiceText(response.body.json)
    /\ ~HasMessageContent(response.body.json)
    /\ result.kind = "raise"

(***************************************************************************)
(* C2.  When the first choice has message.content, the call returns that   *)
(* content without its leading and trailing whitespace, whatever the later *)
(* choices and the other fields are.                                       *)
(***************************************************************************)
C2_ReturnsTrimmedMessageContent ==
    (AzureParsed /\ HasMessageContent(response.body.json)) =>
        /\ result.kind = "return"
        /\ IsTrimOf(result.value, response.body.json.v.choices[1].message.content)

C2_Witness ==
    /\ AzureParsed
    /\ HasMessageContent(response.body.json)
    /\ response.body.json.v.choices[1].message.content = <<SP, "a", SP>>
    /\ Len(response.body.json.v.choices) > 1
    /\ HasOutput(response.body.json)
    /\ result = Return(<<"a">>)

(***************************************************************************)
(* C3.  A received response without choices, with an empty choices list or *)
(* with a first choice without message.content yields no text: the call    *)
(* raises the unexpected-format ValueError, which carries the whole        *)
(* response.                                                               *)
(***************************************************************************)
C3_UnrecognizedShapeCarriesResponse ==
    (AzureParsed /\ ~HasMessageContent(response.body.json)) =>
        /\ result.kind = "raise"
        /\ result.exc.type = "ValueError"
        /\ result.exc.detail.k = "response"
        /\ result.exc.detail.response = response.body.json

C3_Witness ==
    /\ AzureParsed
    /\ response.body.json = JObj([unexpected |-> <<"shape">>])
    /\ result.kind = "raise"
    /\ result.exc.detail = ResponseDetail(JObj([unexpected |-> <<"shape">>]))

(***************************************************************************)
(* C4.  When the Vertex response has no text and its first candidate has a *)
(* finish reason, call_vertex_ai raises the generation-stopped error with  *)
(* that finish reason; the failure raised when there is no candidate or no *)
(* finish reason has another message and carries no finish reason.         *)
(***************************************************************************)
VertexAnswered ==
    /\ module = "vertex"
    /\ pc = "done"
    /\ response.kind = "response"

HasFinishReason(resp) ==
    /\ "candidates" \in DOMAIN resp
    /\ resp.candidates # <<>>
    /\ "finish_reason" \in DOMAIN resp.candidates[1]

C4_BlockedGenerationCarriesFinishReason ==
    (VertexAnswered /\ response.response.text = <<>>) =>
        /\ result.kind = "raise"
        /\ IF HasFinishReason(response.response)
           THEN /\ result.exc.msg = <<"Generation stopped due to: ">>
                /\ result.exc.detail.k = "finish_reason"
                /\ result.exc.detail.finish_reason
                       = response.response.candidates[1].finish_reason
           ELSE /\ result.exc.msg # <<"Generation stopped due to: ">>
                /\ result.exc.detail.k # "finish_reason"

C4_Witness ==
    /\ VertexAnswered
    /\ response.response.text = <<>>
    /\ HasFinishReason(response.response)
    /\ response.response.candidates[1].finish_reason = "SAFETY"
    /\ result.kind = "raise"
    /\ result.exc.detail = [k |-> "finish_reason", finish_reason |-> "SAFETY"]

(***************************************************************************)
(* C5.  The claim as written: when a required configuration value (the     *)
(* Azure endpoint, the Azure API key, the Google Cloud project) is absent, *)
(* a send operation makes no call to the outside and ends with a           *)
(* configuration error that names the missing variable.  (An operation     *)
(* handed an image path that does not exist is left to C6: it may fail     *)
(* with the not-found error first.)                                        *)
(***************************************************************************)
\* the operation was handed an image path that does not exist
SomePathMissing ==
    /\ op.name \in {"send_image_message", "send_multimodal_message"}
    /\ \E i \in 1..Len(op.image_paths) : ~Exists(op.image_paths[i])

MissingVariables ==
    IF module = "azureFoundry"
    THEN {v \in {"AZURE_OPENAI_ENDPOINT", "AZURE_OPENAI_API_KEY"} :
            \/ v = "AZURE_OPENAI_ENDPOINT" /\ Falsy(AZURE_OPENAI_ENDPOINT)
            \/ v = "AZURE_OPENAI_API_KEY" /\ Falsy(AZURE_OPENAI_API_KEY)}
    ELSE {v \in {"GOOGLE_CLOUD_PROJECT"} : Falsy(GOOGLE_CLOUD_PROJECT)}

C5_MissingConfigurationFailsBeforeAnyCall ==
    (MissingVariables # {} /\ ~SomePathMissing) =>
        /\ calls = <<>>
        /\ pc = "done" =>
              /\ result.kind = "raise"
              /\ result.exc.type = "ValueError"
              /\ result.exc.msg[1] \in MissingVariables

(***************************************************************************)
(* C6.  When an image path handed to an image-sending operation does not   *)
(* exist, the operation raises FileNotFoundError and makes no call to the  *)
(* outside, however many earlier paths of the list exist.                  *)
(***************************************************************************)
C6_MissingImageFailsBeforeAnyCall ==
    SomePathMissing =>
        /\ pc = "done"
        /\ result.kind = "raise"
        /\ result.exc.type = "FileNotFoundError"
        /\ calls = <<>>

C6_Witness ==
    /\ op.name = "send_multimodal_message"
    /\ op.image_paths = <<P_png, P_gone>>
    /\ pc = "done"
    /\ result.kind = "raise"
    /\ result.exc.type = "FileNotFoundError"
    /\ calls = <<>>

(***************************************************************************)
(* C7.  The content handed to the provider call is one text part followed  *)
(* by one image part per image supplied, in the order supplied; with no    *)
(* images there is no image part and the user text is the text supplied.   *)
(***************************************************************************)
\* the text t ends with the text u
EndsWith(t, u) ==
    Len(u) <= Len(t) /\ SubSeq(t, Len(t) - Len(u) + 1, Len(t)) = u

C7_VertexParts ==
    content_parts # <<>> =>
        /\ Len(content_parts) = 1 + Len(op.image_paths)
        /\ content_parts[1].type = "text"
        /\ EndsWith(content_parts[1].text, <<"\n\nUser: ">> \o op.text)
        /\ \A i \in 1..Len(op.image_paths) :
              /\ content_parts[i + 1].type = "image"
              /\ content_parts[i + 1].data = ReadBytes(op.image_paths[i])
              /\ content_parts[i + 1].mime_type
                     = vertex_mime_type(Lower(PathSuffix(op.image_paths[i])))

C7_AzureParts ==
    messages # <<>> =>
        LET content == messages[Len(messages)].content
        IN IF op.image_paths = <<>>
           THEN content.kind = "str" /\ content.str = op.text
           ELSE /\ content.kind = "parts"
                /\ Len(content.parts) = 1 + Len(op.image_paths)
                /\ content.parts[1] = [type |-> "text", text |-> op.text]
                /\ \A i \in 1..Len(op.image_paths) :
                      /\ content.parts[i + 1].type = "image_url"
                      /\ content.parts[i + 1].image_url.url.data
                             = b64encode(ReadBytes(op.image_paths[i]))

C7_PayloadIsTextThenImagesInOrder == C7_VertexParts /\ C7_AzureParts

C7_Witness ==
    /\ pc = "vx_generate"
    /\ op.name = "send_multimodal_message"
    /\ op.image_paths = <<P_JPG, P_png>>
    /\ Len(content_parts) = 3
    /\ content_parts[2].data = ReadBytes(P_JPG)
    /\ content_parts[3].data = ReadBytes(P_png)

(***************************************************************************)
(* C8.  A send operation sends at most one request to the remote service:  *)
(* after a failure no second request is sent.                              *)
(***************************************************************************)
C8_AtMostOneRequest ==
    /\ CountCalls(calls, "requests.post") <= 1
    /\ CountCalls(calls, "generate_content") <= 1
    /\ (calls # <<>> /\ result.kind = "raise") => pc = "done"

C8_Witness ==
    /\ pc = "done"
    /\ result.kind = "raise"
    /\ result.exc.type = "requests.exceptions.Timeout"
    /\ calls = <<Call("requests.post", "chat/completions")>>

(***************************************************************************)
(* C9.  The claim as written: every failure that arises inside a send      *)
(* operation reaches the caller as the original failure, unchanged; no     *)
(* operation returns a text when a failure arose, and no step falls back   *)
(* to an alternative in place of failing.                                  *)
(***************************************************************************)
C9_FailuresReachTheCallerUnchanged ==
    pc = "done" =>
        /\ raised # <<>> => result = Raise(raised[1])
        /\ result.kind = "return" => raised = <<>>
        /\ (~Falsy(GOOGLE_APPLICATION_CREDENTIALS)
            /\ ~CredentialsFileExists(GOOGLE_APPLICATION_CREDENTIALS)) =>
              CountCalls(calls, "vertexai.init") = 0

(***************************************************************************)
(* C10.  The system instruction is never lost: the first Azure message has *)
(* the role 'system' and the instruction as its content, and the user turn *)
(* follows it; the single Vertex text part starts with the labelled        *)
(* instruction, ahead of the user text, in all three operations.           *)
(***************************************************************************)
C10_SystemInstructionLeadsThePayload ==
    /\ messages # <<>> =>
          /\ Len(messages) = 2
          /\ messages[1] = [role |-> "system", content |-> StrContent(op.system)]
          /\ messages[2].role = "user"
    /\ content_parts # <<>> =>
          /\ Cardinality({i \in 1..Len(content_parts) :
                             content_parts[i].type = "text"}) = 1
          /\ content_parts[1].type = "text"
          /\ content_parts[1].text
                 = <<"System: ">> \o op.system \o <<"\n\nUser: ">> \o op.text

C10_Witness ==
    /\ pc = "vx_generate"
    /\ op.name = "send_image_message"
    /\ op.system = <<"s">>
    /\ op.text = <<"a">>
    /\ content_parts[1].text = <<"System: ", "s", "\n\nUser: ", "a">>

(***************************************************************************)
(* C11.  The claim as written: when the Azure endpoint answers with a      *)
(* status outside 2xx, the call ends with the HTTP-status failure, raised  *)
(* before the body is parsed; it returns no text, and the failure carries  *)
(* the status code and the raw body.                                       *)
(***************************************************************************)
AzureAnswered ==
    /\ module = "azureFoundry"
    /\ pc = "done"
    /\ response.kind = "response"

\* the call ended with the HTTP-status failure of the response, and nothing
\* else was raised on the way
EndedWithHttpStatusFailure ==
    /\ result.kind = "raise"
    /\ result.exc.type = "requests.exceptions.HTTPError"
    /\ result.exc.detail.k = "http"
    /\ result.exc.detail.status_code = response.status_code
    /\ result.exc.detail.body = response.body
    /\ raised = <<result.exc>>

C11_Non2xxIsHttpStatusFailure ==
    (AzureAnswered /\ ~(200 <= response.status_code /\ response.status_code < 300)) =>
        EndedWithHttpStatusFailure

(***************************************************************************)
(* C11, amended.  When the Azure endpoint answers with a 4xx or 5xx        *)
(* status, the call ends with the HTTP-status failure, raised before the   *)
(* body is parsed; it returns no text, and the failure carries the status  *)
(* code and the raw body.  (A 3xx answer that requests hands back is       *)
(* parsed like a success.)                                                 *)
(***************************************************************************)
C11_ErrorStatusIsHttpStatusFailure ==
    (AzureAnswered /\ 400 <= response.status_code /\ response.status_code < 600) =>
        EndedWithHttpStatusFailure

C11_Witness ==
    /\ AzureAnswered
    /\ response.status_code = 401
    /\ response.body.valid
    /\ HasMessageContent(response.body.json)
    /\ EndedWithHttpStatusFailure

(***************************************************************************)
(* C12.  MIME resolution never fails and ignores the case of the           *)
(* extension: .jpg and .jpeg give image/jpeg, .png image/png, .gif         *)
(* image/gif, .webp image/webp, and every other or missing extension       *)
(* image/jpeg; both scripts map alike.                                     *)
(***************************************************************************)
\* the extensions of the table, in every case they are tried in, and their type
MimeTable ==
    [e \in MimeExtensions |->
        IF e \in {<<".", "p", "n", "g">>, <<".", "P", "N", "G">>, <<".", "P", "n", "g">>}
        THEN "image/png"
        ELSE IF e \in {<<".", "g", "i", "f">>, <<".", "G", "I", "F">>}
        THEN "image/gif"
        ELSE IF e \in {<<".", "w", "e", "b", "p">>, <<".", "W", "E", "B", "P">>,
                       <<".", "W", "e", "b", "P">>}
        THEN "image/webp"
        ELSE "image/jpeg"]

C12_MimeResolution ==
    (pc = "done" /\ op.name = "resolve_mime") =>
        /\ result.kind = "return"
        /\ \A stem \in MimeStems, e \in MimeExtensions :
              op.image_paths[1] = stem \o e => result.value = MimeTable[e]

C12_Witness ==
    /\ module = "vertex"
    /\ pc = "done"
    /\ op.name = "resolve_mime"
    /\ op.image_paths[1] = <<"I", "M", "G", ".", "W", "e", "b", "P">>
    /\ result = Return("image/webp")

(***************************************************************************)
(* C13.  In call_vertex_ai the initialization comes before any generation  *)
(* request; when the initialization fails the call ends with the runtime   *)
(* failure and generate_content is never called; and whenever the call     *)
(* returns a value, vertexai.init was called exactly once, then            *)
(* generate_content exactly once, and the text of the response was not     *)
(* empty.                                                                  *)
(***************************************************************************)
InitializationExceptions ==
    {"google.auth.exceptions.MalformedError",
     "google.auth.exceptions.DefaultCredentialsError"}

InitializationFailed ==
    \E i \in 1..Len(raised) : raised[i].type \in InitializationExceptions

IndexesOf(log, fn) == {i \in 1..Len(log) : log[i].fn = fn}

C13_InitializationPrecedesGeneration ==
    module = "vertex" =>
        /\ \A j \in IndexesOf(calls, "generate_content") :
              \E i \in IndexesOf(calls, "vertexai.init") : i < j
        /\ InitializationFailed =>
              /\ pc = "done"
              /\ result.kind = "raise"
              /\ result.exc.type = "RuntimeError"
              /\ IndexesOf(calls, "generate_content") = {}
        /\ result.kind = "return" =>
              /\ Cardinality(IndexesOf(calls, "vertexai.init")) = 1
              /\ Cardinality(IndexesOf(calls, "generate_content")) = 1
              /\ calls[Len(calls)].fn = "generate_content"
              /\ response.kind = "response"
              /\ response.response.text # <<>>

C13_Witness ==
    /\ module = "vertex"
    /\ pc = "done"
    /\ result.kind = "return"
    /\ calls = <<Call("Credentials.from_service_account_file", "file"),
                 Call("vertexai.init", "credentials"),
                 Call("generate_content", "content_parts")>>
    /\ response.response.text = <<SP>>

C13_WitnessInitializationFailed ==
    /\ module = "vertex"
    /\ pc = "done"
    /\ InitializationFailed
    /\ result = Raise(RuntimeError)

(***************************************************************************)
(* C14.  generate_compliance_report prints its five sections in order      *)
(* (Vertex AI, logging, BigQuery, storage, project policies) and then the  *)
(* summary, whichever provider calls fail: no failure leaves the report.   *)
(* The summary says 'EU compliant' exactly when the configured location    *)
(* (us-central1 when unset) is in the EU region list and the Vertex AI     *)
(* initialization succeeded.                                               *)
(***************************************************************************)
ReportHeadings ==
    <<"1. VERTEX AI CONFIGURATION", "2. LOGGING CONFIGURATION",
      "3. BIGQUERY DATASETS", "4. STORAGE BUCKETS", "5. PROJECT POLICIES",
      "SUMMARY">>

\* the headings among the printed lines, in the order they were printed
HeadingsPrinted ==
    SelectSeq([i \in 1..Len(output) |-> output[i].text],
              LAMBDA t : InList(t, ReportHeadings))

Printed(text) == \E i \in 1..Len(output) : output[i].text = text

ConfiguredLocation ==
    IF VERTEX_AI_LOCATION = Unset THEN "us-central1" ELSE VERTEX_AI_LOCATION

VertexInitializationFailed ==
    \E i \in 1..Len(raised) :
        raised[i].detail.k = "call" /\ raised[i].detail.call = "vertexai.init"

C14_ReportRunsAllSectionsThenSummary ==
    module = "eu-residency-validation" =>
        /\ result.kind # "raise"
        /\ Len(HeadingsPrinted) <= Len(ReportHeadings)
        /\ HeadingsPrinted = SubSeq(ReportHeadings, 1, Len(HeadingsPrinted))
        /\ pc = "done" =>
              /\ HeadingsPrinted = ReportHeadings
              /\ Printed("Vertex AI: EU compliant") # Printed("Vertex AI: NOT EU compliant")
              /\ Printed("Vertex AI: EU compliant") <=>
                    /\ \E i \in 1..Len(eu_regions) : eu_regions[i] = ConfiguredLocation
                    /\ ~VertexInitializationFailed
        /\ pc # "done" =>
              /\ ~Printed("Vertex AI: EU compliant")
              /\ ~Printed("Vertex AI: NOT EU compliant")

C14_Witness ==
    /\ module = "eu-residency-validation"
    /\ pc = "done"
    /\ VERTEX_AI_LOCATION = "europe-north1"
    /\ ~VertexInitializationFailed
    /\ Len(raised) = 4
    /\ Printed("Vertex AI: EU compliant")

C14_WitnessConnectionFailed ==
    /\ module = "eu-residency-validation"
    /\ pc = "done"
    /\ VERTEX_AI_LOCATION = "europe-north1"
    /\ VertexInitializationFailed
    /\ Printed("Vertex AI: NOT EU compliant")

====
